---- MODULE Spec2Model ----
(***************************************************************************)
(* Model of the DAG task schedulers of QERLO-Task-Offloading:              *)
(*   src/src/algorithms/QIPSO.py                  (QIPSO_Scheduler)        *)
(*   src/src/algorithms/First_come_first_server.py (schedule_fcfs)         *)
(*   src/src/algorithms/heft.py                   (HEFTScheduler)          *)
(*                                                                         *)
(* Numbers.  The code computes with floats.  Every time of the model is an *)
(* integer number of ticks of 1e-4 s, so 0.1 s is 1000 ticks and the       *)
(* default duration of 10 s is 100000 ticks.  A raw comp_cost or comm_cost *)
(* c stands for c/1000 s, i.e. c*10 ticks.  A power coefficient            *)
(* 1.0 + 0.2*i is kept in tenths (10 + 2*i); a product power x duration is *)
(* a number of 1e-5 J and is stored as an energy in units of 1e-2 J, which *)
(* keeps HEFT's energy, scaled by avg_comp_cost, within TLC's integers.    *)
(* All sample inputs are chosen so that every division of the              *)
(* code is exact in these units; a tolerance of 1e-6 s is below one tick,  *)
(* hence |x| < 1e-6 is x = 0.                                              *)
(***************************************************************************)
EXTENDS Integers, Sequences, FiniteSets, TLC

(* ---------------- bounds of the model ---------------- *)
MaxTasks == 3
MaxNodes == 2
MaxExec == 1
MaxOptTasks == 2
MaxParticles == 2
MaxShortIter == 2
LongIter == 30
MaxRawTasks == 3
MaxNewTasks == 2
MaxCount == 1
MaxQbitNodes == 3
MaxUpdates == 2
MaxOrderIter == 2

(* ---------------- constants of the program ---------------- *)
MinExec == 1000
DefaultExec == 100000
DefaultCompCost == 10000
avg_comp_cost == 1000
Inf == 1000000000
ConvTol == 1000
StagnationWindow == 20
ClipLow == 1
ClipHigh == 99
VelocityLimit == 20
cognitive_weight == 17
social_weight == 17

(* ---------------- arithmetic helpers ---------------- *)
Max2(a, b) == IF a >= b THEN a ELSE b

Min2(a, b) == IF a <= b THEN a ELSE b

SetMax(S) == CHOOSE x \in S : \A y \in S : y <= x

SetMin(S) == CHOOSE x \in S : \A y \in S : x <= y

Abs(x) == IF x < 0 THEN -x ELSE x

Range(s) == {s[i] : i \in DOMAIN s}

RECURSIVE SetToSeq(_)
SetToSeq(S) ==
  IF S = {} THEN <<>>
  ELSE LET m == SetMin(S) IN <<m>> \o SetToSeq(S \ {m})

RECURSIVE Concat(_)
Concat(ss) == IF ss = <<>> THEN <<>> ELSE Head(ss) \o Concat(Tail(ss))

Reverse(s) == [i \in 1..Len(s) |-> s[Len(s) + 1 - i]]

(* dict.get(key, default): an attribute is {} when absent, {v} when set *)
Get(attr, default) == IF attr = {} THEN default ELSE CHOOSE v \in attr : TRUE

(* c/1000 seconds, in ticks *)
CostToTicks(c) == c * 10

(* power (tenths) x duration (ticks), as an energy in units of 1e-2 J *)
Energy(power, duration) == (power * duration) \div 1000

(* an energy in units of 1e-5 J times a factor, in units of 1e-2 J *)
ScaledEnergy(e, factor) == e * (factor \div 1000)

(* ---------------- the task graph (nx.DiGraph) ---------------- *)
(* A graph is [n, nodes, edges, comm]: tasks 1..n in insertion order,      *)
(* nodes[t] = [exec_time, comp_cost] (each an optional attribute),         *)
(* edges a set of pairs, comm[e] the optional comm_cost of edge e.         *)
Tasks(G) == 1..G.n

predecessors(G, t) == {p \in Tasks(G) : <<p, t>> \in G.edges}

successors(G, t) == {s \in Tasks(G) : <<t, s>> \in G.edges}

(* nx.topological_sort: Kahn's algorithm by generations.  The first        *)
(* generation is the tasks of in-degree 0 in insertion order; a task joins *)
(* the next generation when the last of its predecessors is visited, the   *)
(* successors of a task being visited in insertion order.                  *)
PosIn(seq, x) == CHOOSE i \in 1..Len(seq) : seq[i] = x

NextGeneration(G, gen, done) ==
  LET seen == done \cup Range(gen)
      cand == {c \in Tasks(G) \ seen :
                 /\ predecessors(G, c) \subseteq seen
                 /\ predecessors(G, c) \cap Range(gen) # {}}
      last(c) == SetMax({PosIn(gen, p) : p \in predecessors(G, c) \cap Range(gen)})
  IN Concat([i \in 1..Len(gen) |-> SetToSeq({c \in cand : last(c) = i})])

RECURSIVE Generations(_, _, _)
Generations(G, gen, done) ==
  IF gen = <<>> THEN <<>>
  ELSE gen \o Generations(G, NextGeneration(G, gen, done), done \cup Range(gen))

topological_sort(G) ==
  Generations(G, SetToSeq({t \in Tasks(G) : predecessors(G, t) = {}}), {})

(* nx.topological_sort raises NetworkXUnfeasible when tasks are left over *)
has_cycle(G) == Len(topological_sort(G)) < G.n

(* ---------------- QIPSO_Scheduler.find_critical_path ---------------- *)
task_times(G) ==
  [t \in Tasks(G) |->
     Max2(MinExec, Get(G.nodes[t].exec_time,
                       CostToTicks(Get(G.nodes[t].comp_cost, DefaultCompCost))))]

(* forward pass, lines 68-74: earliest_start is a defaultdict(float) *)
RECURSIVE ForwardPass(_, _, _, _)
ForwardPass(G, tt, order, es) ==
  IF order = <<>> THEN es
  ELSE LET task == Head(order)
           es2 == [s \in Tasks(G) |->
                     IF s \in successors(G, task)
                     THEN Max2(es[s], es[task] + tt[task])
                     ELSE es[s]]
       IN ForwardPass(G, tt, Tail(order), es2)

(* the default of latest_finish, line 76: max(earliest_start.values()) *)
LatestFinishSeed(es) == SetMax(Range(es))

(* one update of the backward pass, lines 79-82 *)
LatestFinishUpdate(lfPred, lfTask, ttPred) == Min2(lfPred, lfTask - ttPred)

RECURSIVE BackwardPass(_, _, _, _)
BackwardPass(G, tt, order, lf) ==
  IF order = <<>> THEN lf
  ELSE LET task == Head(order)
           lf2 == [p \in Tasks(G) |->
                     IF p \in predecessors(G, task)
                     THEN LatestFinishUpdate(lf[p], lf[task], tt[p])
                     ELSE lf[p]]
       IN BackwardPass(G, tt, Tail(order), lf2)

(* the test of line 86, a tolerance of 1e-6 s being below one tick *)
IsCritical(es, lf, tt, t) == es[t] - (lf[t] - tt[t]) = 0

(* find_critical_path on self.dag with self.task_list = order *)
find_critical_path(G, order) ==
  LET tt == task_times(G)
      es == ForwardPass(G, tt, order, [t \in Tasks(G) |-> 0])
      seed == LatestFinishSeed(es)
      lf == BackwardPass(G, tt, Reverse(order), [t \in Tasks(G) |-> seed])
      cp == SelectSeq(order, LAMBDA t : IsCritical(es, lf, tt, t))
      path == IF cp = <<>> THEN <<order[1]>> ELSE cp
  IN [critical_path |-> path,
      critical_length |-> SetMax(Range(es)) + tt[path[Len(path)]],
      earliest_start |-> es,
      latest_finish |-> lf]

(* ---------------- shared helpers of the simulations ---------------- *)
(* node_power_consumptions / node_powers: 1.0 + 0.2*i, in tenths *)
node_power(i) == 10 + 2 * i

Nodes(N) == 0..(N - 1)

DictGet(d, k, default) == IF k \in DOMAIN d THEN d[k] ELSE default

RECURSIVE SumOver(_, _)
SumOver(f, S) ==
  IF S = {} THEN 0
  ELSE LET x == CHOOSE y \in S : TRUE IN f[x] + SumOver(f, S \ {x})

(* a ready time that forgets the predecessors *)
ReadyTimeNone(G, finish, task) == 0

(* ready_time = max([task_finish_times.get(dep, 0) for dep in preds] + [0]) *)
ReadyTime(G, finish, task) ==
  SetMax({DictGet(finish, dep, 0) : dep \in predecessors(G, task)} \cup {0})

(* a start time that looks at the node alone *)
StartTimeNodeOnly(ready_time, node_free) == node_free

(* start_time = max(ready_time, device_end_times[node]) *)
StartTime(ready_time, node_free) == Max2(ready_time, node_free)

(* ---------------- QIPSO_Scheduler.evaluate_schedule ---------------- *)
EvalDuration(G, task) == Max2(MinExec, Get(G.nodes[task].exec_time, DefaultExec))

(* one pass of the loop body, lines 98-112 *)
EvalStep(G, schedule, st, task) ==
  LET node == schedule[task]
      duration == EvalDuration(G, task)
      ready_time == ReadyTime(G, st.task_finish_times, task)
      start_time == StartTime(ready_time, st.device_end_times[node])
      end_time == start_time + duration
  IN [device_end_times |-> [st.device_end_times EXCEPT ![node] = end_time],
      device_energy |-> [st.device_energy EXCEPT ![node] = @ + Energy(node_power(node), duration)],
      task_finish_times |-> (task :> end_time) @@ st.task_finish_times,
      start_times |-> (task :> start_time) @@ st.start_times]

RECURSIVE EvalLoop(_, _, _, _)
EvalLoop(G, schedule, order, st) ==
  IF order = <<>> THEN st
  ELSE EvalLoop(G, schedule, Tail(order), EvalStep(G, schedule, st, Head(order)))

(* the simulation: the locals of evaluate_schedule after the loop *)
evaluate_sim(G, order, N, schedule) ==
  EvalLoop(G, schedule, order,
           [device_end_times |-> [i \in Nodes(N) |-> 0],
            device_energy |-> [i \in Nodes(N) |-> 0],
            task_finish_times |-> <<>>,
            start_times |-> <<>>])

(* return max(device_end_times), sum(device_energy) *)
evaluate_schedule(G, order, N, schedule) ==
  LET st == evaluate_sim(G, order, N, schedule)
  IN [makespan |-> SetMax(Range(st.device_end_times)),
      energy |-> SumOver(st.device_energy, Nodes(N))]

(* ---------------- First_come_first_server.py ---------------- *)
(* a normalisation that lifts every exec_time up to 0.1 by 0.1 *)
normalize_execution_times_lift(G) ==
  [G EXCEPT !.nodes =
     [t \in Tasks(G) |->
        IF Get(G.nodes[t].exec_time, DefaultExec) <= MinExec
        THEN [G.nodes[t] EXCEPT !.exec_time =
                {Get(G.nodes[t].exec_time, DefaultExec) + MinExec}]
        ELSE G.nodes[t]]]

(* normalize_execution_times: writes exec_time = 0.1 into the caller's graph
   where the stored (or defaulted) exec_time is below 0.1 *)
normalize_execution_times(G) ==
  [G EXCEPT !.nodes =
     [t \in Tasks(G) |->
        IF Get(G.nodes[t].exec_time, DefaultExec) < MinExec
        THEN [G.nodes[t] EXCEPT !.exec_time = {MinExec}]
        ELSE G.nodes[t]]]

(* the last node of least availability *)
FcfsBestNodeLast(avail, N) ==
  SetMax({i \in Nodes(N) : \A j \in Nodes(N) : avail[i] <= avail[j]})

(* min(range(num_edge_nodes), key=...): the first node of least availability *)
FcfsBestNode(avail, N) ==
  SetMin({i \in Nodes(N) : \A j \in Nodes(N) : avail[i] <= avail[j]})

FcfsStep(G, N, st, task) ==
  LET exec_time == Max2(MinExec, Get(G.nodes[task].exec_time, DefaultExec))
      ready_time == ReadyTime(G, st.task_finish_times, task)
      best_node == FcfsBestNode(st.node_available_time, N)
      start_time == StartTime(ready_time, st.node_available_time[best_node])
      end_time == start_time + exec_time
  IN [node_available_time |-> [st.node_available_time EXCEPT ![best_node] = end_time],
      task_finish_times |-> (task :> end_time) @@ st.task_finish_times,
      schedule |-> (task :> [assigned_node |-> best_node,
                             start_time |-> start_time,
                             end_time |-> end_time,
                             exec_time |-> exec_time,
                             ready_time |-> ready_time]) @@ st.schedule]

RECURSIVE FcfsLoop(_, _, _, _)
FcfsLoop(G, N, order, st) ==
  IF order = <<>> THEN st
  ELSE FcfsLoop(G, N, Tail(order), FcfsStep(G, N, st, Head(order)))

(* calculate_energy_consumption *)
calculate_energy_consumption(schedule) ==
  SumOver([t \in DOMAIN schedule |->
             Energy(node_power(schedule[t].assigned_node),
                    schedule[t].end_time - schedule[t].start_time)],
          DOMAIN schedule)

(* schedule_fcfs run on the already normalised graph G: the returned dict,
   or the exception of line 30 with the schedule local still empty *)
schedule_fcfs(G, N) ==
  LET st == FcfsLoop(G, N, topological_sort(G),
                     [node_available_time |-> [i \in Nodes(N) |-> 0],
                      task_finish_times |-> <<>>,
                      schedule |-> <<>>])
  IN IF has_cycle(G)
     THEN [error |-> "NetworkXUnfeasible", schedule |-> <<>>]
     ELSE [error |-> "none",
           makespan |-> SetMax(Range(st.node_available_time)),
           energy |-> calculate_energy_consumption(st.schedule),
           schedule |-> st.schedule]

(* ---------------- heft.py: HEFTScheduler ---------------- *)
(* _get_task_cost: comp_cost, else exec_time, else 10.0, each divided by
   avg_comp_cost (exec_time is kept in ticks, comp_cost raw) *)
get_task_cost(node_data) ==
  IF node_data.comp_cost # {}
  THEN (Get(node_data.comp_cost, 0) * 10000) \div avg_comp_cost
  ELSE IF node_data.exec_time # {}
       THEN Get(node_data.exec_time, 0) \div avg_comp_cost
       ELSE DefaultExec \div avg_comp_cost

(* a communication cost that is never charged *)
get_comm_cost_none(G, u, v) == 0

(* _get_comm_cost of G.edges.get((u, v), {}) *)
get_comm_cost(G, u, v) ==
  IF <<u, v>> \in G.edges /\ G.comm[<<u, v>>] # {}
  THEN (Get(G.comm[<<u, v>>], 0) * 10000) \div avg_comp_cost
  ELSE 0

(* compute_upward_rank: memoised recursion; returns the memo table *)
RECURSIVE compute_upward_rank(_, _, _)
RECURSIVE RankSuccessors(_, _, _)
RankSuccessors(G, succs, rank) ==
  IF succs = <<>> THEN rank
  ELSE RankSuccessors(G, Tail(succs), compute_upward_rank(G, Head(succs), rank))

compute_upward_rank(G, task, rank) ==
  IF task \in DOMAIN rank THEN rank
  ELSE LET succs == successors(G, task)
           comp_cost == get_task_cost(G.nodes[task])
           r1 == RankSuccessors(G, SetToSeq(succs), rank)
       IN IF succs = {}
          THEN (task :> comp_cost) @@ rank
          ELSE (task :> comp_cost
                          + SetMax({r1[s] + get_comm_cost(G, task, s) : s \in succs}))
               @@ r1

(* lines 53-54 *)
RECURSIVE RankAll(_, _, _)
RankAll(G, order, rank) ==
  IF order = <<>> THEN rank
  ELSE RankAll(G, Tail(order), compute_upward_rank(G, Head(order), rank))

(* sorted(task_list, key=rank, reverse=True): stable, so tasks of equal rank
   keep their order in task_list *)
(* an insertion that puts a task before the tasks of equal rank *)
RECURSIVE InsertByRankBeforeEquals(_, _, _)
InsertByRankBeforeEquals(sorted, x, rank) ==
  IF sorted = <<>> THEN <<x>>
  ELSE IF rank[Head(sorted)] > rank[x]
       THEN <<Head(sorted)>> \o InsertByRankBeforeEquals(Tail(sorted), x, rank)
       ELSE <<x>> \o sorted

RECURSIVE InsertByRank(_, _, _)
InsertByRank(sorted, x, rank) ==
  IF sorted = <<>> THEN <<x>>
  ELSE IF rank[Head(sorted)] >= rank[x]
       THEN <<Head(sorted)>> \o InsertByRank(Tail(sorted), x, rank)
       ELSE <<x>> \o sorted

RECURSIVE SortByRank(_, _, _)
SortByRank(order, acc, rank) ==
  IF order = <<>> THEN acc
  ELSE SortByRank(Tail(order), InsertByRank(acc, Head(order), rank), rank)

sorted_tasks(G) ==
  LET order == topological_sort(G)
  IN SortByRank(order, <<>>, RankAll(G, order, <<>>))

(* ready_time of lines 67-73; the lookup schedule_result[pred] raises
   KeyError for a predecessor that is not scheduled yet *)
HeftMissingPred(G, schedule_result, task) ==
  \E pred \in predecessors(G, task) : pred \notin DOMAIN schedule_result

(* a ready time that leaves out the communication cost *)
HeftReadyTimeNoComm(G, schedule_result, task) ==
  IF predecessors(G, task) = {} THEN 0
  ELSE SetMax({schedule_result[pred].end_time : pred \in predecessors(G, task)})

HeftReadyTime(G, schedule_result, task) ==
  IF predecessors(G, task) = {} THEN 0
  ELSE SetMax({schedule_result[pred].end_time + get_comm_cost(G, pred, task) :
                 pred \in predecessors(G, task)})

(* the node that is free first, whatever the ready time *)
HeftBestNodeByAvailability(avail, N, ready_time, comp_time) ==
  SetMin({i \in Nodes(N) : \A j \in Nodes(N) : avail[i] <= avail[j]})

(* lines 75-84: the first node with the least finish time *)
HeftBestNode(avail, N, ready_time, comp_time) ==
  LET eft(i) == Max2(ready_time, avail[i]) + comp_time
  IN SetMin({i \in Nodes(N) : \A j \in Nodes(N) : eft(i) <= eft(j)})

HeftStep(G, N, st, task) ==
  IF st.error \/ HeftMissingPred(G, st.schedule_result, task)
  THEN [st EXCEPT !.error = TRUE]
  ELSE LET comp_time == get_task_cost(G.nodes[task])
           ready_time == HeftReadyTime(G, st.schedule_result, task)
           best_node == HeftBestNode(st.node_available_time, N, ready_time, comp_time)
           start_time == StartTime(ready_time, st.node_available_time[best_node])
           end_time == start_time + comp_time
       IN [node_available_time |-> [st.node_available_time EXCEPT ![best_node] = end_time],
           schedule_result |-> (task :> [assigned_node |-> best_node,
                                         start_time |-> start_time,
                                         end_time |-> end_time,
                                         exec_time |-> comp_time]) @@ st.schedule_result,
           ready_time |-> (task :> ready_time) @@ st.ready_time,
           error |-> FALSE]

RECURSIVE HeftLoop(_, _, _, _)
HeftLoop(G, N, order, st) ==
  IF order = <<>> THEN st
  ELSE HeftLoop(G, N, Tail(order), HeftStep(G, N, st, Head(order)))

(* get_makespan, lines 99-103 *)
get_makespan(schedule_result) ==
  IF DOMAIN schedule_result = {} THEN 0
  ELSE SetMax({schedule_result[t].end_time : t \in DOMAIN schedule_result})
         * avg_comp_cost

(* calculate_energy, lines 106-113 *)
calculate_energy(schedule_result) ==
  ScaledEnergy(SumOver([t \in DOMAIN schedule_result |->
                          (schedule_result[t].end_time - schedule_result[t].start_time)
                            * node_power(schedule_result[t].assigned_node)],
                       DOMAIN schedule_result),
               avg_comp_cost)

(* HEFTScheduler(N).schedule(G) on a new object: self.schedule_result
   afterwards and whether the call raised (line 49 on a cycle, before rank
   and schedule_result are touched; the lookup of line 70 in the loop); with
   them the rank table, the processing order and the ready_time local of
   every task, and what get_makespan and calculate_energy return afterwards *)
heft_schedule(G, N) ==
  LET order == sorted_tasks(G)
      st == HeftLoop(G, N, order,
                     [node_available_time |-> [i \in Nodes(N) |-> 0],
                      schedule_result |-> <<>>,
                      ready_time |-> <<>>,
                      error |-> FALSE])
  IN IF has_cycle(G)
     THEN [schedule_result |-> <<>>,
           error |-> TRUE,
           exception |-> "NetworkXUnfeasible",
           rank |-> <<>>,
           sorted_tasks |-> <<>>,
           ready_time |-> <<>>,
           makespan |-> get_makespan(<<>>),
           energy |-> calculate_energy(<<>>)]
     ELSE [schedule_result |-> st.schedule_result,
           error |-> st.error,
           exception |-> IF st.error THEN "KeyError" ELSE "none",
           rank |-> RankAll(G, topological_sort(G), <<>>),
           sorted_tasks |-> order,
           ready_time |-> st.ready_time,
           makespan |-> get_makespan(st.schedule_result),
           energy |-> calculate_energy(st.schedule_result)]

(* ================= state ================= *)
VARIABLES
  graph,       \* the caller's task graph G
  num_nodes,   \* num_edge_nodes
  call,        \* the operation that ran last
  ret,         \* what that operation returned or left behind
  self,        \* the fields of the QIPSO_Scheduler object
  pc,          \* where run_optimization stands
  iteration,   \* the loop variable of line 119
  p,           \* run_optimization's p: particles evaluated in this iteration
  up,          \* update_quantum_states' p: particles updated in this call
  targets      \* per particle, the nodes its last quantum-state update pulled to

schedVars == <<call, ret>>

optVars == <<self, pc, iteration, p, up, targets>>

vars == <<graph, num_nodes, call, ret, self, pc, iteration, p, up, targets>>

(* ---------------- inputs ---------------- *)
(* a task carries exec_time (0 s .. MaxExec s, in ticks) or only a raw
   comp_cost; an edge carries a raw comm_cost or none *)
TaskKinds ==
  {[exec_time |-> {s * 10 * MinExec}, comp_cost |-> {}] : s \in 0..MaxExec}
    \cup {[exec_time |-> {}, comp_cost |-> {2 * DefaultCompCost}]}

CommKinds == {{}, {avg_comp_cost}}

ForwardPairs(n) == {e \in (1..n) \X (1..n) : e[1] < e[2]}

Graphs ==
  UNION {UNION {UNION {
    {[n |-> n, nodes |-> nd, edges |-> E, comm |-> cm] : cm \in [E -> CommKinds]}
      : E \in SUBSET ForwardPairs(n)}
      : nd \in [1..n -> TaskKinds]}
      : n \in 1..MaxTasks}

Assignments(G, N) == [Tasks(G) -> Nodes(N)]

(* every directed graph on up to MaxNewTasks tasks, cycles and self-loops
   included, without edge data *)
NewGraphs ==
  UNION {UNION {
    {[n |-> n, nodes |-> nd, edges |-> E, comm |-> [e \in E |-> {}]]
       : E \in SUBSET ((1..n) \X (1..n))}
       : nd \in [1..n -> TaskKinds]}
       : n \in 1..MaxNewTasks}

(* the graphs of the two worked scenarios: the diamond A->B, A->C, B->D,
   C->D with exec_time 1 everywhere, and the chain A->B->C with exec_time
   2, 3, 4 (tasks numbered in insertion order A, B, C, D) *)
DiamondGraph ==
  LET E == {<<1, 2>>, <<1, 3>>, <<2, 4>>, <<3, 4>>}
  IN [n |-> 4,
      nodes |-> [t \in 1..4 |-> [exec_time |-> {10 * MinExec}, comp_cost |-> {}]],
      edges |-> E,
      comm |-> [e \in E |-> {}]]

ChainGraph ==
  LET E == {<<1, 2>>, <<2, 3>>}
  IN [n |-> 3,
      nodes |-> [t \in 1..3 |-> [exec_time |-> {(t + 1) * 10 * MinExec}, comp_cost |-> {}]],
      edges |-> E,
      comm |-> [e \in E |-> {}]]

ScenarioGraphs == {DiamondGraph, ChainGraph}

(* ================= the schedulers called on a graph ================= *)
SchedInit ==
  /\ graph \in Graphs \cup ScenarioGraphs
  /\ num_nodes \in 1..MaxNodes
  /\ call = "none"
  /\ ret = <<>>
  /\ self = <<>>
  /\ pc = "none"
  /\ iteration = 0
  /\ p = 0
  /\ up = 0
  /\ targets = <<>>

(* QIPSO_Scheduler(graph, num_nodes): lines 24 and 39 *)
Construct ==
  /\ call = "none"
  /\ call' = "find_critical_path"
  /\ ret' = find_critical_path(graph, topological_sort(graph))
  /\ UNCHANGED <<graph, num_nodes, optVars>>

(* QIPSO_Scheduler(graph, num_nodes).evaluate_schedule(schedule) *)
Evaluate ==
  /\ call = "none"
  /\ LET order == topological_sort(graph)
         cp == find_critical_path(graph, order)
     IN \E schedule \in Assignments(graph, num_nodes) :
          LET sim == evaluate_sim(graph, order, num_nodes, schedule)
          IN ret' = [schedule |-> schedule,
                     start_times |-> sim.start_times,
                     end_times |-> sim.task_finish_times,
                     makespan |-> SetMax(Range(sim.device_end_times)),
                     energy |-> SumOver(sim.device_energy, Nodes(num_nodes)),
                     critical_length |-> cp.critical_length]
  /\ call' = "evaluate_schedule"
  /\ UNCHANGED <<graph, num_nodes, optVars>>

(* schedule_fcfs(G, num_nodes): line 25 normalises the caller's graph *)
Fcfs ==
  LET G == normalize_execution_times(graph)
  IN /\ call = "none"
     /\ graph' = G
     /\ call' = "schedule_fcfs"
     /\ ret' = schedule_fcfs(G, num_nodes)
     /\ UNCHANGED <<num_nodes, optVars>>

(* HEFTScheduler(num_nodes).schedule(G) *)
Heft ==
  /\ call = "none"
  /\ call' = "heft_schedule"
  /\ ret' = heft_schedule(graph, num_nodes)
  /\ UNCHANGED <<graph, num_nodes, optVars>>

(* the orders in which a caller can walk the tasks *)
TaskOrders(G) ==
  {o \in [1..G.n -> Tasks(G)] : \A i, j \in 1..G.n : o[i] = o[j] => i = j}

(* compute_upward_rank called on every task with one memo table, as lines
   53-54 do in the order of task_list; here in any order *)
Rank ==
  /\ call = "none"
  /\ call' = "compute_upward_rank"
  /\ \E order \in TaskOrders(graph) :
       ret' = [order |-> order, rank |-> RankAll(graph, order, <<>>)]
  /\ UNCHANGED <<graph, num_nodes, optVars>>

(* a second schedule_fcfs(G, num_nodes) on the graph object the first call
   was given and has normalised *)
FcfsAgain ==
  LET G == normalize_execution_times(graph)
  IN /\ call = "schedule_fcfs"
     /\ graph' = G
     /\ call' = "schedule_fcfs_again"
     /\ ret' = [first |-> ret, second |-> schedule_fcfs(G, num_nodes)]
     /\ UNCHANGED <<num_nodes, optVars>>

(* a second schedule(G) on the same HEFTScheduler: lines 59-60 start from
   fresh availabilities and an empty schedule_result *)
HeftAgain ==
  /\ call = "heft_schedule"
  /\ call' = "heft_schedule_again"
  /\ ret' = [first |-> ret, second |-> heft_schedule(graph, num_nodes)]
  /\ UNCHANGED <<graph, num_nodes, optVars>>

SchedNext ==
  Construct \/ Evaluate \/ Fcfs \/ Heft \/ Rank \/ FcfsAgain \/ HeftAgain

SchedSpec == SchedInit /\ [][SchedNext]_vars

(* ================= the schedulers called on an invalid graph ========== *)
(* graphs in which at least one task has a negative exec_time (-1 s) *)
RawTaskKinds == TaskKinds \cup {[exec_time |-> {-10 * MinExec}, comp_cost |-> {}]}

has_negative_duration(G) ==
  \E t \in Tasks(G) : Get(G.nodes[t].exec_time, 0) < 0

RawGraphs ==
  {G \in UNION {UNION {UNION {
      {[n |-> n, nodes |-> nd, edges |-> E, comm |-> cm] : cm \in [E -> CommKinds]}
        : E \in SUBSET ForwardPairs(n)}
        : nd \in [1..n -> RawTaskKinds]}
        : n \in 1..MaxRawTasks} : has_negative_duration(G)}

RawInit ==
  /\ graph \in RawGraphs
  /\ num_nodes \in 1..MaxNodes
  /\ call = "none"
  /\ ret = <<>>
  /\ self = <<>>
  /\ pc = "none"
  /\ iteration = 0
  /\ p = 0
  /\ up = 0
  /\ targets = <<>>

RawSpec == RawInit /\ [][SchedNext]_vars

(* ================= FCFS and HEFT called on any graph ================= *)
(* valid DAGs, DAGs with a negative exec_time, and directed graphs with
   cycles or self-loops *)
CyclicGraphs == {G \in NewGraphs : has_cycle(G)}

BaseGraphs == Graphs \cup RawGraphs \cup CyclicGraphs

BaseInit ==
  /\ graph \in BaseGraphs
  /\ num_nodes \in 1..MaxNodes
  /\ call = "none"
  /\ ret = <<>>
  /\ self = <<>>
  /\ pc = "none"
  /\ iteration = 0
  /\ p = 0
  /\ up = 0
  /\ targets = <<>>

BaseNext == Fcfs \/ Heft

BaseSpec == BaseInit /\ [][BaseNext]_vars

(* ================= QIPSO_Scheduler.run_optimization ================= *)
(* The quantum bits are not kept: every entry of a row is clipped to at
   least 0.01 before the draw of line 128, so np.random.choice can return
   every node for every task, and a particle's sample is any assignment. *)
Particles(P) == 0..(P - 1)

(* QIPSO never reads edge data: its graphs carry no comm_cost *)
OptGraphs ==
  {G \in Graphs : G.n <= MaxOptTasks /\ \A e \in G.edges : G.comm[e] = {}}

MaxIters == (0..MaxShortIter) \cup {LongIter}

(* the object after __init__, lines 22-52 *)
NewScheduler(G, N, P, M) ==
  LET order == topological_sort(G)
      cp == find_critical_path(G, order)
  IN [dag |-> G,
      task_list |-> order,
      num_tasks |-> Len(order),
      num_nodes |-> N,
      num_particles |-> P,
      max_iter |-> M,
      critical_path |-> cp.critical_path,
      critical_length |-> cp.critical_length,
      personal_best_scores |-> [i \in Particles(P) |-> Inf],
      personal_best_schedules |-> [i \in Particles(P) |-> <<>>],
      global_best_score |-> Inf,
      global_best_energy |-> Inf,
      global_best_schedule |-> <<>>,
      convergence_history |-> <<>>]

OptInit ==
  /\ graph \in OptGraphs
  /\ num_nodes \in 1..MaxNodes
  /\ \E P \in 0..MaxParticles, M \in MaxIters :
       self = NewScheduler(graph, num_nodes, P, M)
  /\ pc = "for"
  /\ iteration = 0
  /\ p = 0
  /\ up = 0
  /\ targets = [i \in Particles(self.num_particles) |->
                  [iteration |-> -1, personal |-> <<>>, global |-> <<>>]]
  /\ call = "run_optimization"
  /\ ret = <<>>

(* line 122: range(num_particles) is exhausted after num_particles passes *)
LoopOver(evaluated, num_particles) == evaluated >= num_particles

(* lines 132-139: the personal best, and nested in it the global best *)
(* a global-best test that also replaces on a tie *)
ImprovesGlobalOrTies(makespan, global_best_score) == makespan <= global_best_score

ImprovesGlobal(makespan, global_best_score) == makespan < global_best_score

(* lines 137-139 dedented out of both tests: every sample becomes the
   global best *)
UpdateBestsDedented(s, i, schedule, makespan, energy) ==
  LET s1 == IF makespan < s.personal_best_scores[i]
            THEN [s EXCEPT !.personal_best_scores[i] = makespan,
                           !.personal_best_schedules[i] = schedule]
            ELSE s
  IN [s1 EXCEPT !.global_best_score = makespan,
                !.global_best_energy = energy,
                !.global_best_schedule = schedule]

(* a global best whose assignment is not replaced with its score *)
UpdateBestsScoreOnly(s, i, schedule, makespan, energy) ==
  IF makespan < s.personal_best_scores[i]
  THEN LET s1 == [s EXCEPT !.personal_best_scores[i] = makespan,
                           !.personal_best_schedules[i] = schedule]
       IN IF ImprovesGlobal(makespan, s.global_best_score)
          THEN [s1 EXCEPT !.global_best_score = makespan,
                          !.global_best_energy = energy]
          ELSE s1
  ELSE s

(* a personal best that is the latest sample, better or not *)
UpdateBestsLatestSample(s, i, schedule, makespan, energy) ==
  LET s1 == [s EXCEPT !.personal_best_scores[i] = makespan,
                      !.personal_best_schedules[i] = schedule]
  IN IF ImprovesGlobal(makespan, s.global_best_score)
     THEN [s1 EXCEPT !.global_best_score = makespan,
                     !.global_best_energy = energy,
                     !.global_best_schedule = schedule]
     ELSE s1

UpdateBests(s, i, schedule, makespan, energy) ==
  IF makespan < s.personal_best_scores[i]
  THEN LET s1 == [s EXCEPT !.personal_best_scores[i] = makespan,
                           !.personal_best_schedules[i] = schedule]
       IN IF ImprovesGlobal(makespan, s.global_best_score)
          THEN [s1 EXCEPT !.global_best_score = makespan,
                          !.global_best_energy = energy,
                          !.global_best_schedule = schedule]
          ELSE s1
  ELSE s

(* line 119: the next value of range(max_iter) *)
StartIteration ==
  /\ pc = "for"
  /\ iteration < self.max_iter
  /\ pc' = "particle"
  /\ p' = 0
  /\ UNCHANGED <<graph, num_nodes, schedVars, self, iteration, up, targets>>

(* line 119: range(max_iter) is exhausted; line 147 returns *)
Exhausted ==
  /\ pc = "for"
  /\ iteration >= self.max_iter
  /\ pc' = "done"
  /\ ret' = [schedule |-> self.global_best_schedule,
             makespan |-> self.global_best_score,
             energy |-> self.global_best_energy,
             exit |-> "max_iter"]
  /\ UNCHANGED <<graph, num_nodes, call, self, iteration, p, up, targets>>

(* lines 122-139 for particle p: sample, evaluate, update the bests *)
EvaluateParticle ==
  /\ pc = "particle"
  /\ ~LoopOver(p, self.num_particles)
  /\ \E schedule \in Assignments(self.dag, self.num_nodes) :
       LET out == evaluate_schedule(self.dag, self.task_list, self.num_nodes, schedule)
       IN self' = UpdateBests(self, p, schedule, out.makespan, out.energy)
  /\ p' = p + 1
  /\ UNCHANGED <<graph, num_nodes, schedVars, pc, iteration, up, targets>>

(* line 141: the particle loop is over, update_quantum_states is called *)
CallUpdate ==
  /\ pc = "particle"
  /\ LoopOver(p, self.num_particles)
  /\ pc' = "update"
  /\ up' = 0
  /\ UNCHANGED <<graph, num_nodes, schedVars, self, iteration, p, targets>>

(* lines 152-153: the nodes the cognitive and the social term pull to *)
personal_best_node(s, i) ==
  [t \in Tasks(s.dag) |-> DictGet(s.personal_best_schedules[i], t, 0)]

(* a social term that reads the first particle's personal best *)
global_best_node_of_first(s) ==
  [t \in Tasks(s.dag) |-> DictGet(s.personal_best_schedules[0], t, 0)]

global_best_node(s) ==
  [t \in Tasks(s.dag) |-> DictGet(s.global_best_schedule, t, 0)]

(* lines 150-179 for particle p *)
UpdateParticle ==
  /\ pc = "update"
  /\ up < self.num_particles
  /\ targets' = [targets EXCEPT ![up] =
                   [iteration |-> iteration,
                    personal |-> personal_best_node(self, up),
                    global |-> global_best_node(self)]]
  /\ up' = up + 1
  /\ UNCHANGED <<graph, num_nodes, schedVars, self, pc, iteration, p>>

(* check_convergence, lines 186-197, called after the append of line 142 *)
ReachedMinimum(s) == Abs(s.global_best_score - s.critical_length) < ConvTol

LastEntries(h, k) == SubSeq(h, Max2(1, Len(h) - k + 1), Len(h))

(* inf - inf is nan, and nan < 0.1 is False *)
Stagnated(s) ==
  /\ Len(s.convergence_history) > StagnationWindow
  /\ LET recent == SetMin({e[1] : e \in Range(LastEntries(s.convergence_history,
                                                         StagnationWindow))})
     IN /\ ~(recent = Inf /\ s.global_best_score = Inf)
        /\ Abs(recent - s.global_best_score) < ConvTol

check_convergence(s) == ReachedMinimum(s) \/ Stagnated(s)

(* lines 142-145: record the global best, then break or go on *)
RecordAndCheck ==
  /\ pc = "update"
  /\ up >= self.num_particles
  /\ LET s == [self EXCEPT !.convergence_history =
                 Append(@, <<self.global_best_score, self.global_best_energy>>)]
     IN /\ self' = s
        /\ IF check_convergence(s)
           THEN /\ pc' = "done"
                /\ ret' = [schedule |-> s.global_best_schedule,
                           makespan |-> s.global_best_score,
                           energy |-> s.global_best_energy,
                           exit |-> "break"]
                /\ UNCHANGED iteration
           ELSE /\ pc' = "for"
                /\ iteration' = iteration + 1
                /\ UNCHANGED ret
  /\ UNCHANGED <<graph, num_nodes, call, p, up, targets>>

OptNext ==
  \/ StartIteration
  \/ Exhausted
  \/ EvaluateParticle
  \/ CallUpdate
  \/ UpdateParticle
  \/ RecordAndCheck

OptSpec == OptInit /\ [][OptNext]_vars

(* ================= one pass of the particle loop ================= *)
(* lines 122-139 with the particles taken in a given order; samples[i] is
   the assignment particle i drew at lines 124-128 *)
(* a loop that takes the particles from last to first of the order *)
RECURSIVE EvaluateInReverseOrder(_, _, _)
EvaluateInReverseOrder(s, samples, order) ==
  IF order = <<>> THEN s
  ELSE LET i == order[Len(order)]
           out == evaluate_schedule(s.dag, s.task_list, s.num_nodes, samples[i])
       IN EvaluateInReverseOrder(UpdateBests(s, i, samples[i], out.makespan, out.energy),
                                 samples, SubSeq(order, 1, Len(order) - 1))

RECURSIVE EvaluateInOrder(_, _, _)
EvaluateInOrder(s, samples, order) ==
  IF order = <<>> THEN s
  ELSE LET i == Head(order)
           out == evaluate_schedule(s.dag, s.task_list, s.num_nodes, samples[i])
       IN EvaluateInOrder(UpdateBests(s, i, samples[i], out.makespan, out.energy),
                          samples, Tail(order))

(* range(num_particles) *)
RangeOrder(P) == [k \in 1..P |-> k - 1]

(* the orders in which the particles can be taken *)
ParticleOrders(P) ==
  {o \in [1..P -> Particles(P)] : \A i, j \in 1..P : o[i] = o[j] => i = j}

IterInit ==
  /\ graph \in OptGraphs
  /\ num_nodes \in 1..MaxNodes
  /\ \E P \in 1..MaxParticles, M \in 1..MaxOrderIter :
       self = NewScheduler(graph, num_nodes, P, M)
  /\ pc = "for"
  /\ iteration = 0
  /\ p = 0
  /\ up = 0
  /\ targets = <<>>
  /\ call = "run_optimization"
  /\ ret = <<>>

(* one pass of the body of the loop of line 119: the particles are
   evaluated in range order, the history is appended to and
   check_convergence decides whether the loop goes on; ret keeps what the
   same samples give when the particles are taken in another order *)
Iterate ==
  /\ pc = "for"
  /\ iteration < self.max_iter
  /\ \E samples \in [Particles(self.num_particles) ->
                        Assignments(self.dag, self.num_nodes)],
        order \in ParticleOrders(self.num_particles) :
       LET ranged == EvaluateInOrder(self, samples, RangeOrder(self.num_particles))
           permuted == EvaluateInOrder(self, samples, order)
           s == [ranged EXCEPT !.convergence_history =
                   Append(@, <<ranged.global_best_score, ranged.global_best_energy>>)]
       IN /\ self' = s
          /\ ret' = [samples |-> samples,
                     order |-> order,
                     before |-> self,
                     ranged |-> ranged,
                     permuted |-> permuted]
          /\ pc' = IF check_convergence(s) THEN "done" ELSE "for"
          /\ iteration' = IF check_convergence(s) THEN iteration ELSE iteration + 1
  /\ call' = "iteration"
  /\ p' = self.num_particles
  /\ UNCHANGED <<graph, num_nodes, up, targets>>

(* line 147 *)
Return ==
  /\ pc = "for"
  /\ iteration >= self.max_iter
  /\ pc' = "done"
  /\ UNCHANGED <<graph, num_nodes, call, ret, self, iteration, p, up, targets>>

IterNext == Iterate \/ Return

IterSpec == IterInit /\ [][IterNext]_vars

(* ================= QIPSO_Scheduler.__init__ ================= *)
(* num_particles and max_iter as passed *)
Counts == (-MaxCount)..MaxCount

(* mutation_prob as passed, in tenths: -0.1, 0, 0.3, 1, 1.1 *)
MutationProbs == {-1, 0, 3, 10, 11}

(* a node-count test that lets 0 through *)
InvalidNodeCountNegative(N) == N < 0

(* line 16 *)
InvalidNodeCount(N) == N < 1

(* line 18 *)
InvalidMutationProb(mutation_prob) == mutation_prob < 0 \/ mutation_prob > 10

(* the exception __init__ raises, "none" when it returns: lines 16-19, the
   except of line 27, and numpy's refusal of a negative dimension in the
   np.random.uniform of line 43 *)
init_error(G, N, P, mutation_prob) ==
  IF InvalidNodeCount(N) THEN "ValueError: Must have at least 1 edge node"
  ELSE IF InvalidMutationProb(mutation_prob)
  THEN "ValueError: Mutation probability must be between 0 and 1"
  ELSE IF has_cycle(G) THEN "ValueError: Graph contains cycles - must be a DAG"
  ELSE IF P < 0 THEN "ValueError: negative dimensions are not allowed"
  ELSE "none"

(* the attributes assigned when __init__ raises or returns *)
init_created(G, N, P, mutation_prob) ==
  IF InvalidNodeCount(N) \/ InvalidMutationProb(mutation_prob) THEN {}
  ELSE IF has_cycle(G) THEN {"dag"}
  ELSE IF P < 0
  THEN {"dag", "task_list", "num_particles", "max_iter", "critical_path"}
  ELSE {"dag", "task_list", "num_particles", "max_iter", "critical_path",
        "qbits", "velocities", "personal_best", "global_best",
        "convergence_history"}

NewInit ==
  /\ graph \in NewGraphs
  /\ num_nodes \in 0..MaxNodes
  /\ call = "none"
  /\ ret = <<>>
  /\ self = <<>>
  /\ pc = "none"
  /\ iteration = 0
  /\ p = 0
  /\ up = 0
  /\ targets = <<>>

(* QIPSO_Scheduler(graph, num_nodes, num_particles, max_iter,
   mutation_prob=mutation_prob): self is the object, <<>> when none is
   returned *)
New ==
  /\ call = "none"
  /\ call' = "__init__"
  /\ \E num_particles \in Counts, max_iter \in Counts,
        mutation_prob \in MutationProbs :
       LET error == init_error(graph, num_nodes, num_particles, mutation_prob)
       IN /\ ret' = [num_particles |-> num_particles,
                     max_iter |-> max_iter,
                     mutation_prob |-> mutation_prob,
                     error |-> error,
                     created |-> init_created(graph, num_nodes, num_particles,
                                              mutation_prob)]
          /\ self' = IF error = "none"
                     THEN NewScheduler(graph, num_nodes, num_particles, max_iter)
                     ELSE <<>>
  /\ UNCHANGED <<graph, num_nodes, pc, iteration, p, up, targets>>

NewSpec == NewInit /\ [][New]_vars

(* ================= the quantum bits of one row ================= *)
(* qbits[p,t] and velocities[p,t] for one particle p and one task t.  A
   row of reals is kept exactly, as [num, den]: entry i is num[i] / den.
   Bounds of np.clip are given in hundredths, weights in tenths.  The
   1e-10 that line 58 adds to the row total is not kept. *)
RECURSIVE GCD(_, _)
GCD(a, b) == IF b = 0 THEN a ELSE GCD(b, a % b)

RECURSIVE RowGCD(_, _)
RowGCD(row, S) ==
  IF S = {} THEN row.den
  ELSE LET i == CHOOSE j \in S : TRUE
       IN GCD(RowGCD(row, S \ {i}), Abs(row.num[i]))

(* the same reals over the least common denominator *)
Reduce(row) ==
  LET g == RowGCD(row, DOMAIN row.num)
  IN [num |-> [i \in DOMAIN row.num |-> row.num[i] \div g], den |-> row.den \div g]

(* row * a / b *)
Times(row, a, b) ==
  Reduce([num |-> [i \in DOMAIN row.num |-> row.num[i] * a], den |-> row.den * b])

(* r1 + r2, over the least common multiple of the denominators *)
Plus(r1, r2) ==
  LET g == GCD(r1.den, r2.den)
      k1 == r2.den \div g
      k2 == r1.den \div g
  IN Reduce([num |-> [i \in DOMAIN r1.num |-> r1.num[i] * k1 + r2.num[i] * k2],
             den |-> r1.den * k1])

Minus(r1, r2) == Plus(r1, Times(r2, -1, 1))

(* np.arange(num_nodes) == node *)
OneHot(N, node) == [num |-> [i \in Nodes(N) |-> IF i = node THEN 1 ELSE 0], den |-> 1]

(* a clip that has no lower bound *)
clip_high_only(row, lo, hi) ==
  Reduce([num |-> [i \in DOMAIN row.num |-> Min2(hi * row.den, row.num[i] * 100)],
          den |-> row.den * 100])

(* np.clip(row, lo / 100, hi / 100) *)
clip(row, lo, hi) ==
  Reduce([num |-> [i \in DOMAIN row.num |->
                     Max2(lo * row.den, Min2(hi * row.den, row.num[i] * 100))],
          den |-> row.den * 100])

(* row /= row.sum() *)
DivideBySum(row) ==
  Reduce([num |-> row.num, den |-> SumOver(row.num, DOMAIN row.num)])

(* normalize_qbits for one row, lines 57-59 *)
normalize_qbits(row) == DivideBySum(clip(row, ClipLow, ClipHigh))

(* np.random.uniform(0.1, 0.9), in tenths *)
UniformDraws == {1, 5, 8}

(* random.random(), in halves *)
RandomDraws == {0, 1}

(* the mutation of lines 172-177: none (node -1), or mut_node and the
   offset random.uniform(-0.1, 0.1) in tenths *)
Mutations(N) ==
  {[node |-> -1, offset |-> 0]}
    \cup {[node |-> i, offset |-> u] : i \in Nodes(N), u \in {-1, 1}}

(* one pass of the body of update_quantum_states, lines 152-179 *)
update_quantum_states(q, v, N, personal, global, r1, r2, mutation) ==
  \* weight (tenths) * random (halves): a factor of weight * r / 20
  LET cognitive == Times(Minus(OneHot(N, personal), q), cognitive_weight * r1, 20)
      social == Times(Minus(OneHot(N, global), q), social_weight * r2, 20)
      velocity == clip(Plus(Plus(v, cognitive), social), -VelocityLimit, VelocityLimit)
      moved == clip(Plus(q, velocity), ClipLow, ClipHigh)
      mutated == IF mutation.node = -1 THEN moved
                 ELSE clip(Plus(moved, Times(OneHot(N, mutation.node), mutation.offset, 10)),
                           ClipLow, ClipHigh)
  IN [qbits |-> DivideBySum(mutated), velocities |-> velocity]

QbitInit ==
  /\ graph = [n |-> 1,
              nodes |-> <<[exec_time |-> {10 * MinExec}, comp_cost |-> {}]>>,
              edges |-> {},
              comm |-> <<>>]
  /\ num_nodes \in 1..MaxQbitNodes
  /\ call = "none"
  /\ ret = <<>>
  /\ self = <<>>
  /\ pc = "none"
  /\ iteration = 0
  /\ p = 0
  /\ up = 0
  /\ targets = <<>>

(* lines 43-45 of __init__ *)
InitQbits ==
  /\ call = "none"
  /\ call' = "normalize_qbits"
  /\ \E drawn \in [Nodes(num_nodes) -> UniformDraws] :
       self' = [qbits |-> normalize_qbits([num |-> drawn, den |-> 10]),
                velocities |-> [num |-> [i \in Nodes(num_nodes) |-> 0], den |-> 1]]
  /\ UNCHANGED <<graph, num_nodes, ret, pc, iteration, p, up, targets>>

(* update_quantum_states(iteration), line 141: the row is pulled to the
   node of the personal best and to the node of the global best *)
UpdateQbits ==
  /\ call \in {"normalize_qbits", "update_quantum_states"}
  /\ iteration < MaxUpdates
  /\ call' = "update_quantum_states"
  /\ iteration' = iteration + 1
  /\ \E personal \in Nodes(num_nodes), global \in Nodes(num_nodes),
        r1 \in RandomDraws, r2 \in RandomDraws, mutation \in Mutations(num_nodes) :
       self' = update_quantum_states(self.qbits, self.velocities, num_nodes,
                                     personal, global, r1, r2, mutation)
  /\ UNCHANGED <<graph, num_nodes, ret, pc, p, up, targets>>

QbitNext == InitQbits \/ UpdateQbits

QbitSpec == QbitInit /\ [][QbitNext]_vars

(* ================= claims: the schedulers ================= *)

(* C1: in the schedule of FCFS, of HEFT and of the simulation inside
   evaluate_schedule (any total assignment), every task is scheduled and
   starts no earlier than the end of each of its predecessors. *)
C1_Precedence ==
  /\ call = "schedule_fcfs" =>
       /\ DOMAIN ret.schedule = Tasks(graph)
       /\ \A e \in graph.edges :
            ret.schedule[e[2]].start_time >= ret.schedule[e[1]].end_time
  /\ call = "heft_schedule" =>
       /\ ~ret.error
       /\ DOMAIN ret.schedule_result = Tasks(graph)
       /\ \A e \in graph.edges :
            ret.schedule_result[e[2]].start_time >= ret.schedule_result[e[1]].end_time
  /\ call = "evaluate_schedule" =>
       /\ DOMAIN ret.start_times = Tasks(graph)
       /\ \A e \in graph.edges : ret.start_times[e[2]] >= ret.end_times[e[1]]

(* a task placed on another node than its predecessor and held back to the
   predecessor's end *)
C1_Witness ==
  /\ call = "evaluate_schedule"
  /\ \E e \in graph.edges :
       /\ ret.schedule[e[1]] # ret.schedule[e[2]]
       /\ ret.end_times[e[1]] > 0
       /\ ret.start_times[e[2]] = ret.end_times[e[1]]

(* C2: the makespan that evaluate_schedule returns is never below the
   critical_length of the same graph (the tolerance of 1e-6 s is below one
   tick). *)
C2_MakespanAtLeastCritical ==
  call = "evaluate_schedule" => ret.makespan >= ret.critical_length

(* C3: critical_length is the length of the longest duration-weighted path,
   max over t of earliest_start[t] + duration[t]. *)
C3_CriticalLengthIsLongestPath ==
  call = "find_critical_path" =>
    ret.critical_length =
      SetMax({ret.earliest_start[t] + task_times(graph)[t] : t \in Tasks(graph)})

(* the latest finish as C4 states it: the global finish time for a sink,
   else the least latest_finish[s] - duration[s] over the successors s *)
RECURSIVE C4_LatestFinish(_, _, _, _)
C4_LatestFinish(G, tt, finish, t) ==
  IF successors(G, t) = {} THEN finish
  ELSE SetMin({C4_LatestFinish(G, tt, finish, s) - tt[s] : s \in successors(G, t)})

(* C4: the returned task list is exactly the tasks of zero slack, in
   topological order, with latest_finish as stated in C4. *)
C4_CriticalPathIsZeroSlack ==
  call = "find_critical_path" =>
    LET tt == task_times(graph)
        es == ret.earliest_start
        finish == SetMax({es[t] + tt[t] : t \in Tasks(graph)})
    IN ret.critical_path =
         SelectSeq(topological_sort(graph),
                   LAMBDA t : es[t] = C4_LatestFinish(graph, tt, finish, t) - tt[t])

(* ================= claims: run_optimization ================= *)
History == self.convergence_history

(* C5: the loop is left by the break of line 145 only if the lower bound
   is reached or the best makespan improved by less than 0.1 over the last
   20 history entries.  An improvement of exactly 0.1 is counted as below
   0.1, as a float subtraction may round it (10.1 - 10.0 < 0.1). *)
C5_StopsOnlyWhenConverged ==
  (pc = "done" /\ ret.exit = "break") =>
     \/ Abs(self.global_best_score - self.critical_length) < ConvTol
     \/ /\ Len(History) >= StagnationWindow
        /\ SetMax({e[1] : e \in Range(LastEntries(History, StagnationWindow))})
             - self.global_best_score <= ConvTol

(* C6: the makespans recorded in convergence_history never increase from
   one entry to the next. *)
C6_HistoryNonIncreasing ==
  pc # "none" =>
    \A i \in 1..(Len(History) - 1) : History[i + 1][1] <= History[i][1]

(* an improvement was recorded between two iterations *)
C6_Witness ==
  /\ pc # "none"
  /\ \E i \in 1..(Len(History) - 1) :
       /\ History[i + 1][1] < History[i][1]
       /\ History[i][1] < Inf

GlobalBest(s) == <<s.global_best_score, s.global_best_energy, s.global_best_schedule>>

(* C7 as stated: no step that leaves a particle of the iteration
   unevaluated changes the global best. *)
C7_ChangedOnlyAfterAllEvaluated ==
  [][(pc = "particle" /\ ~LoopOver(p', self.num_particles))
       => GlobalBest(self') = GlobalBest(self)]_vars

(* C7 amended: the global best changes only in the evaluation step of a
   particle, to that particle's new personal best and to a strictly lower
   score; no other step of run_optimization changes it. *)
C7_ChangedOnlyByImprovingParticle ==
  [][GlobalBest(self') # GlobalBest(self)
       => /\ pc = "particle"
          /\ ~LoopOver(p, self.num_particles)
          /\ p' = p + 1
          /\ self'.global_best_score < self.global_best_score
          /\ self'.global_best_score = self'.personal_best_scores[p]
          /\ self'.global_best_schedule = self'.personal_best_schedules[p]]_vars

(* the global best moved below the value recorded at the end of the
   previous iteration while a particle is still unevaluated *)
C7_Witness ==
  /\ pc = "particle"
  /\ ~LoopOver(p, self.num_particles)
  /\ Len(History) > 0
  /\ self.global_best_score < History[Len(History)][1]

(* C8: the social term of every particle updated in the current iteration
   was read from global_best_schedule after every particle had been
   evaluated, and equals the global best as it stands: the global best does
   not change while update_quantum_states runs, so all particles use the
   same one. *)
C8_SocialTermConsistent ==
  pc # "none" =>
    \A i \in DOMAIN targets :
      targets[i].iteration = iteration =>
        /\ pc \in {"update", "done"}
        /\ LoopOver(p, self.num_particles)
        /\ targets[i].global =
             [t \in Tasks(self.dag) |-> DictGet(self.global_best_schedule, t, 0)]

(* both particles updated in a later iteration, their personal bests
   differing *)
C8_Witness ==
  /\ pc = "update"
  /\ self.num_particles = 2
  /\ up = 2
  /\ iteration >= 1
  /\ targets[0].iteration = iteration
  /\ targets[1].iteration = iteration
  /\ targets[0].personal # targets[1].personal
  /\ targets[0].global = targets[1].global

(* C9: run_optimization ends after at most max_iter iterations with a
   total assignment, a finite makespan and a finite energy. *)
C9_BestEffortResult ==
  pc = "done" =>
    /\ Len(History) <= self.max_iter
    /\ DOMAIN ret.schedule = Tasks(self.dag)
    /\ \A t \in Tasks(self.dag) : ret.schedule[t] \in Nodes(self.num_nodes)
    /\ ret.makespan < Inf
    /\ ret.energy < Inf

(* a DAG whose critical_length is the least makespan of any assignment *)
C10_TriviallyShort(s) ==
  s.critical_length =
    SetMin({evaluate_schedule(s.dag, s.task_list, s.num_nodes, a).makespan :
              a \in Assignments(s.dag, s.num_nodes)})

(* C10: with max_iter >= LongIter, a run on a trivially short DAG ends by
   the break after check_convergence returned True, never by exhausting
   range(max_iter). *)
C10_TrivialDagConverges ==
  (/\ pc = "done"
   /\ self.max_iter >= LongIter
   /\ C10_TriviallyShort(self))
    => ret.exit = "break"

(* ================= claims: FCFS ================= *)
(* node_available_time[i] when the k-th task of the order is visited: the
   end of the task placed last on node i, 0 when none was *)
C11_Available(order, schedule, k, i) ==
  LET earlier == {j \in 1..(k - 1) : schedule[order[j]].assigned_node = i}
  IN IF earlier = {} THEN 0 ELSE schedule[order[SetMax(earlier)]].end_time

(* C11: schedule_fcfs visits the tasks in topological order; each task goes
   to the node of least availability at that moment, the lowest index among
   equals, starts at max(ready_time, availability of that node) and ends
   one duration later. *)
C11_FcfsRule ==
  call = "schedule_fcfs" =>
    LET order == topological_sort(graph)
        s == ret.schedule
    IN \A k \in 1..Len(order) :
         LET t == order[k]
             node == s[t].assigned_node
             avail == [i \in Nodes(num_nodes) |-> C11_Available(order, s, k, i)]
             ready == SetMax({s[q].end_time : q \in predecessors(graph, t)} \cup {0})
         IN /\ \A i \in Nodes(num_nodes) :
                 /\ avail[node] <= avail[i]
                 /\ avail[i] = avail[node] => node <= i
            /\ s[t].start_time = Max2(ready, avail[node])
            /\ s[t].end_time = s[t].start_time + EvalDuration(graph, t)

(* a tie between two busy nodes went to node 0, and another task waited
   for a predecessor on a node that was free earlier *)
C11_Witness ==
  /\ call = "schedule_fcfs"
  /\ num_nodes = 2
  /\ LET order == topological_sort(graph)
         s == ret.schedule
     IN /\ \E k \in 1..Len(order) :
             /\ C11_Available(order, s, k, 0) = C11_Available(order, s, k, 1)
             /\ C11_Available(order, s, k, 0) > 0
             /\ s[order[k]].assigned_node = 0
        /\ \E k \in 1..Len(order) :
             s[order[k]].start_time >
               C11_Available(order, s, k, s[order[k]].assigned_node)

(* C12 as stated: on the diamond with 2 nodes FCFS places A on node 0 at
   [0,1], B on node 0 at [1,2], C on node 1 at [1,2], D at [2,3]; makespan
   3. *)
C12_DiamondAsStated ==
  (call = "schedule_fcfs" /\ graph = DiamondGraph /\ num_nodes = 2) =>
    LET s == ret.schedule
        at(t, node, from, to) ==
          /\ s[t].assigned_node = node
          /\ s[t].start_time = from * 10 * MinExec
          /\ s[t].end_time = to * 10 * MinExec
    IN /\ at(1, 0, 0, 1)
       /\ at(2, 0, 1, 2)
       /\ at(3, 1, 1, 2)
       /\ s[4].start_time = 2 * 10 * MinExec
       /\ s[4].end_time = 3 * 10 * MinExec
       /\ ret.makespan = 3 * 10 * MinExec

(* C12 amended: B goes to node 1, which is free since 0, and C to node 0;
   the times and the makespan are as stated, D on node 0. *)
C12_DiamondByAvailability ==
  (call = "schedule_fcfs" /\ graph = DiamondGraph /\ num_nodes = 2) =>
    LET s == ret.schedule
        at(t, node, from, to) ==
          /\ s[t].assigned_node = node
          /\ s[t].start_time = from * 10 * MinExec
          /\ s[t].end_time = to * 10 * MinExec
    IN /\ at(1, 0, 0, 1)
       /\ at(2, 1, 1, 2)
       /\ at(3, 0, 1, 2)
       /\ at(4, 0, 2, 3)
       /\ ret.makespan = 3 * 10 * MinExec

(* FCFS ran on the diamond with two nodes and B is on node 1 *)
C12_Witness ==
  /\ call = "schedule_fcfs"
  /\ graph = DiamondGraph
  /\ num_nodes = 2
  /\ ret.schedule[2].assigned_node = 1
  /\ ret.schedule[2].start_time = 10 * MinExec

(* ================= claims: the chain scenario ================= *)
(* C13: on one node the chain with exec_time 2, 3, 4 is scheduled by FCFS,
   HEFT and the QIPSO simulation as A [0,2], B [2,5], C [5,9] on node 0
   (the times stored in the schedule), makespan 9, energy 9 x power[0]. *)
C13_ChainOnOneNode ==
  (graph = ChainGraph /\ num_nodes = 1) =>
    LET sec == 10 * MinExec
        from == <<0, 2 * sec, 5 * sec>>
        to == <<2 * sec, 5 * sec, 9 * sec>>
        stored(s) ==
          \A t \in 1..3 : /\ s[t].assigned_node = 0
                          /\ s[t].start_time = from[t]
                          /\ s[t].end_time = to[t]
        metrics == /\ ret.makespan = 9 * sec
                   /\ ret.energy = Energy(node_power(0), 9 * sec)
    IN /\ call = "schedule_fcfs" => stored(ret.schedule) /\ metrics
       /\ call = "heft_schedule" => stored(ret.schedule_result) /\ metrics
       /\ call = "evaluate_schedule" =>
            /\ \A t \in 1..3 : /\ ret.schedule[t] = 0
                                /\ ret.start_times[t] = from[t]
                                /\ ret.end_times[t] = to[t]
            /\ metrics

(* ================= claims: HEFT ================= *)
(* commCost(u, v): the raw comm_cost of the edge over 1000, 0 without one *)
C14_CommCost(G, u, v) == CostToTicks(Get(G.comm[<<u, v>>], 0))

(* the upward rank as C14 states it *)
RECURSIVE C14_Rank(_, _)
C14_Rank(G, t) ==
  get_task_cost(G.nodes[t])
    + (IF successors(G, t) = {} THEN 0
       ELSE SetMax({C14_Rank(G, s) + C14_CommCost(G, t, s) : s \in successors(G, t)}))

(* C14: whatever the order of the first calls, the memo table holds for
   every task cost(t), plus the largest rank(s) + commCost(t, s) over its
   successors when it has any. *)
C14_UpwardRank ==
  call = "compute_upward_rank" =>
    /\ DOMAIN ret.rank = Tasks(graph)
    /\ \A t \in Tasks(graph) : ret.rank[t] = C14_Rank(graph, t)

(* the first call was on a task that has a predecessor over an edge with a
   communication cost, and the predecessor's rank includes that cost *)
C14_Witness ==
  /\ call = "compute_upward_rank"
  /\ \E e \in graph.edges :
       /\ ret.order[1] = e[2]
       /\ graph.comm[e] # {}
       /\ successors(graph, e[1]) = {e[2]}
       /\ ret.rank[e[2]] > 0
       /\ ret.rank[e[1]] =
            get_task_cost(graph.nodes[e[1]]) + ret.rank[e[2]] + 10 * avg_comp_cost

(* C15: HEFT places each task on the node of least
   max(ready_time, availability) + cost, the lowest index among equals,
   and a task starts no earlier than the end of every task placed before
   it on its node. *)
C15_EarliestFinishNode ==
  (call = "heft_schedule" /\ ~ret.error) =>
    LET order == ret.sorted_tasks
        s == ret.schedule_result
    IN \A k \in 1..Len(order) :
         LET t == order[k]
             node == s[t].assigned_node
             eft == [i \in Nodes(num_nodes) |->
                       Max2(ret.ready_time[t], C11_Available(order, s, k, i))
                         + s[t].exec_time]
         IN /\ \A i \in Nodes(num_nodes) :
                 /\ eft[node] <= eft[i]
                 /\ eft[i] = eft[node] => node <= i
            /\ \A j \in 1..(k - 1) :
                 s[order[j]].assigned_node = node
                   => s[t].start_time >= s[order[j]].end_time

(* node 1 was free before node 0, both give the same finish time, and the
   task was appended to node 0 *)
C15_Witness ==
  /\ call = "heft_schedule"
  /\ ~ret.error
  /\ num_nodes = 2
  /\ \E k \in 1..Len(ret.sorted_tasks) :
       /\ C11_Available(ret.sorted_tasks, ret.schedule_result, k, 1)
            < C11_Available(ret.sorted_tasks, ret.schedule_result, k, 0)
       /\ ret.schedule_result[ret.sorted_tasks[k]].assigned_node = 0
       /\ ret.schedule_result[ret.sorted_tasks[k]].exec_time > 0

(* C16 as stated: HEFT's ready_time is the largest end_time of the
   predecessors, 0 without any, also over edges with a communication
   cost. *)
C16_ReadyTimeIsMaxEnd ==
  (call = "heft_schedule" /\ ~ret.error) =>
    \A t \in Tasks(graph) :
      ret.ready_time[t] =
        SetMax({ret.schedule_result[q].end_time : q \in predecessors(graph, t)}
                 \cup {0})

(* C16 amended: the ready_time is the largest end_time(p) + commCost(p, t)
   over the predecessors, 0 without any. *)
C16_ReadyTimeAddsCommCost ==
  (call = "heft_schedule" /\ ~ret.error) =>
    \A t \in Tasks(graph) :
      ret.ready_time[t] =
        SetMax({ret.schedule_result[q].end_time + C14_CommCost(graph, q, t) :
                  q \in predecessors(graph, t)} \cup {0})

(* a task became ready only after the transfer from its predecessor *)
C16_Witness ==
  /\ call = "heft_schedule"
  /\ ~ret.error
  /\ \E e \in graph.edges :
       /\ graph.comm[e] # {}
       /\ ret.ready_time[e[2]] > ret.schedule_result[e[1]].end_time
       /\ ret.schedule_result[e[2]].start_time = ret.ready_time[e[2]]

(* ================= claims: determinism ================= *)
(* C17: a second call of schedule_fcfs on the graph object of the first
   call, and a second call of HEFTScheduler.schedule, return the schedule,
   makespan and energy of the first call. *)
C17_SecondCallAgrees ==
  /\ call = "schedule_fcfs_again" =>
       /\ ret.second.schedule = ret.first.schedule
       /\ ret.second.makespan = ret.first.makespan
       /\ ret.second.energy = ret.first.energy
  /\ call = "heft_schedule_again" =>
       /\ ret.second.schedule_result = ret.first.schedule_result
       /\ ret.second.makespan = ret.first.makespan
       /\ ret.second.energy = ret.first.energy

(* the second FCFS call ran on a graph in which the first call had
   raised an exec_time of 0 to 0.1 *)
C17_Witness ==
  /\ call = "schedule_fcfs_again"
  /\ \E t \in Tasks(graph) :
       /\ graph.nodes[t].exec_time = {MinExec}
       /\ ret.first.schedule[t].exec_time = MinExec
       /\ ret.second.schedule[t].exec_time = MinExec
  /\ \E e \in graph.edges : TRUE

(* ================= claims: invalid input ================= *)
(* C18: a call of evaluate_schedule, schedule_fcfs or HEFTScheduler.schedule
   on a graph with a task of negative duration raises an error instead of
   returning a schedule.  evaluate_schedule and schedule_fcfs have no
   statement that raises; HEFT raises only on the lookup of line 70. *)
C18_NegativeDurationIsFatal ==
  [][(/\ call = "none"
      /\ has_negative_duration(graph)
      /\ call' \in {"evaluate_schedule", "schedule_fcfs", "heft_schedule"})
       => (call' = "heft_schedule" /\ ret'.error)]_vars

(* ================= claims: construction ================= *)
(* C19: a particle count or a max_iter of 0 or less makes the constructor
   fail; no object is returned. *)
C19_CountsValidated ==
  (call = "__init__" /\ (ret.num_particles <= 0 \/ ret.max_iter <= 0)) =>
    /\ ret.error # "none"
    /\ self = <<>>

(* the state no failed construction may have created *)
C20_SwarmState == {"qbits", "velocities", "personal_best", "global_best"}

(* C20 as stated: the constructor fails, with no swarm state created,
   exactly when the graph has a cycle, num_edge_nodes < 1 or mutation_prob
   is outside [0, 1]. *)
C20_FailsExactlyOnListedCases ==
  call = "__init__" =>
    /\ ret.error # "none" <=>
         \/ Len(topological_sort(graph)) < graph.n
         \/ num_nodes < 1
         \/ ret.mutation_prob < 0
         \/ ret.mutation_prob > 10
    /\ ret.error # "none" => ret.created \cap C20_SwarmState = {}

(* C20 amended: the same, with a negative num_particles as a fourth case
   of failure. *)
C20_FailsOnListedCasesOrNegativeSwarm ==
  call = "__init__" =>
    /\ ret.error # "none" <=>
         \/ Len(topological_sort(graph)) < graph.n
         \/ num_nodes < 1
         \/ ret.mutation_prob < 0
         \/ ret.mutation_prob > 10
         \/ ret.num_particles < 0
    /\ ret.error # "none" => (ret.created \cap C20_SwarmState = {} /\ self = <<>>)
    /\ ret.error = "none" => (C20_SwarmState \subseteq ret.created /\ self # <<>>)

(* the graph with the cycle 1 -> 2 -> 1 was refused although every other
   argument is valid *)
C20_Witness ==
  /\ call = "__init__"
  /\ num_nodes >= 1
  /\ ret.mutation_prob = 3
  /\ ret.num_particles = 1
  /\ ret.max_iter = 1
  /\ ret.error = "ValueError: Graph contains cycles - must be a DAG"
  /\ <<2, 1>> \in graph.edges
  /\ <<1, 2>> \in graph.edges

(* ================= claims: failure of FCFS and HEFT ================= *)
(* C21: schedule_fcfs and HEFTScheduler.schedule return a schedule of every
   task or raise; a cyclic graph is refused with no rank computed and no
   task assigned; and after a call that raised, schedule_result holds no
   task of the failed call, so get_makespan returns 0. *)
C21_AllOrNothing ==
  /\ call = "schedule_fcfs" =>
       /\ ret.error = "none" => DOMAIN ret.schedule = Tasks(graph)
       /\ has_cycle(graph) => (ret.error # "none" /\ ret.schedule = <<>>)
  /\ call = "heft_schedule" =>
       /\ ~ret.error => DOMAIN ret.schedule_result = Tasks(graph)
       /\ has_cycle(graph) =>
            (ret.error /\ ret.rank = <<>> /\ ret.schedule_result = <<>>)
       /\ ret.error => (ret.schedule_result = <<>> /\ ret.makespan = 0)

(* ================= claims: the produced schedules ================= *)
(* C22: in every schedule FCFS or HEFT returns, a task starts no earlier
   than the end of every task simulated before it on the same node, and
   every task ends one duration after its start. *)
C22_NoOverlapOnNode ==
  /\ (call = "schedule_fcfs" /\ ret.error = "none") =>
       LET order == topological_sort(graph)
           s == ret.schedule
       IN /\ \A k \in 1..Len(order) : \A j \in 1..(k - 1) :
                s[order[j]].assigned_node = s[order[k]].assigned_node
                  => s[order[k]].start_time >= s[order[j]].end_time
          /\ \A t \in Tasks(graph) :
                s[t].end_time = s[t].start_time + EvalDuration(graph, t)
  /\ (call = "heft_schedule" /\ ~ret.error) =>
       LET order == ret.sorted_tasks
           s == ret.schedule_result
       IN /\ \A k \in 1..Len(order) : \A j \in 1..(k - 1) :
                s[order[j]].assigned_node = s[order[k]].assigned_node
                  => s[order[k]].start_time >= s[order[j]].end_time
          /\ \A t \in Tasks(graph) :
                s[t].end_time = s[t].start_time + get_task_cost(graph.nodes[t])

(* C23: the energy a scheduler reports equals the sum over the tasks of
   (end_time - start_time) x power[assigned_node] recomputed from the
   entries of the schedule it stored.  The recomputed sum is a number of
   1e-5 J, the reported energy one of 1e-2 J. *)
C23_EnergyRoundTrip ==
  /\ (call = "schedule_fcfs" /\ ret.error = "none") =>
       LET s == ret.schedule
           recomputed == SumOver([t \in DOMAIN s |->
                                    (s[t].end_time - s[t].start_time)
                                      * node_power(s[t].assigned_node)],
                                 DOMAIN s)
       IN recomputed = ret.energy * 1000
  /\ (call = "heft_schedule" /\ ~ret.error) =>
       LET s == ret.schedule_result
           recomputed == SumOver([t \in DOMAIN s |->
                                    (s[t].end_time - s[t].start_time)
                                      * node_power(s[t].assigned_node)],
                                 DOMAIN s)
       IN /\ recomputed % 1000 = 0
          /\ recomputed \div 1000 = ret.energy

(* ================= claims: the caller's graph ================= *)
(* C24: no call of a scheduler changes the caller's graph: tasks, edges,
   and the attributes of every task and edge are after the call what they
   were before it. *)
C24_GraphReadOnly ==
  [][call' \in {"find_critical_path", "evaluate_schedule", "schedule_fcfs",
                "heft_schedule"} => graph' = graph]_vars

(* ================= claims: the quantum bits ================= *)
(* C25 as stated: after normalize_qbits and after every
   update_quantum_states the row sums to 1 and every entry lies in
   [0.01, 0.99], for every node count. *)
C25_RowInClampRange ==
  call \in {"normalize_qbits", "update_quantum_states"} =>
    LET q == self.qbits
    IN /\ SumOver(q.num, Nodes(num_nodes)) = q.den
       /\ \A i \in Nodes(num_nodes) :
            /\ q.num[i] * 100 >= ClipLow * q.den
            /\ q.num[i] * 100 <= ClipHigh * q.den

(* C25 amended: the row sums to 1 and every entry is a value of
   [0.01, 0.99] over a sum of num_nodes such values, hence lies in
   [0.01 / (0.01 + 0.99 (n - 1)), 0.99 / (0.99 + 0.01 (n - 1))]. *)
C25_RowIsClampedOverSum ==
  call \in {"normalize_qbits", "update_quantum_states"} =>
    LET q == self.qbits
        n == num_nodes
    IN /\ SumOver(q.num, Nodes(n)) = q.den
       /\ \A i \in Nodes(n) :
            /\ q.num[i] * (ClipLow + ClipHigh * (n - 1)) >= ClipLow * q.den
            /\ q.num[i] * (ClipHigh + ClipLow * (n - 1)) <= ClipHigh * q.den

(* after an update on three nodes an entry of the row is below 0.01 *)
C25_Witness ==
  /\ call = "update_quantum_states"
  /\ num_nodes = 3
  /\ SumOver(self.qbits.num, Nodes(3)) = self.qbits.den
  /\ \E i \in Nodes(3) : self.qbits.num[i] * 100 < self.qbits.den

(* ================= claims: HEFT's processing order ================= *)
(* C26: HEFT processes the tasks by descending upward rank, tasks of equal
   rank in their topological order, and on a DAG with non-negative costs
   every predecessor is processed before its successor, so no lookup of a
   predecessor's end_time fails. *)
C26_PredecessorsFirst ==
  call = "heft_schedule" =>
    LET order == ret.sorted_tasks
        topo == topological_sort(graph)
    IN /\ ~ret.error
       /\ Len(order) = graph.n
       /\ \A i, j \in 1..Len(order) :
            i < j =>
              /\ ret.rank[order[i]] >= ret.rank[order[j]]
              /\ ret.rank[order[i]] = ret.rank[order[j]]
                   => PosIn(topo, order[i]) < PosIn(topo, order[j])
       /\ \A e \in graph.edges : PosIn(order, e[1]) < PosIn(order, e[2])

(* a predecessor of zero cost has the rank of its successor and is
   processed first, in a graph whose rank order is not the topological
   order *)
C26_Witness ==
  /\ call = "heft_schedule"
  /\ ~ret.error
  /\ ret.sorted_tasks # topological_sort(graph)
  /\ \E e \in graph.edges :
       /\ ret.rank[e[1]] = ret.rank[e[2]]
       /\ PosIn(ret.sorted_tasks, e[1]) < PosIn(ret.sorted_tasks, e[2])

(* ================= claims: the length of a run ================= *)
(* C27: whatever max_iter is, convergence_history never holds more than
   min(max_iter, 21) entries: run_optimization executes at most 21
   iterations. *)
C27_AtMostTwentyOneIterations ==
  pc # "none" => Len(History) <= Min2(self.max_iter, StagnationWindow + 1)

(* ================= claims: the stored bests ================= *)
(* C28: after every step of run_optimization, and so after every particle
   evaluation, global_best_score is the least of the personal_best_scores,
   and no step raises a personal_best_scores[p]. *)
C28_GlobalIsLeastPersonal ==
  [][(pc # "none" /\ self.num_particles >= 1) =>
       /\ self'.global_best_score = SetMin(Range(self'.personal_best_scores))
       /\ \A i \in Particles(self.num_particles) :
            self'.personal_best_scores[i] <= self.personal_best_scores[i]]_vars

(* the second particle has found a personal best that is no global best *)
C28_Witness ==
  /\ pc = "particle"
  /\ self.num_particles = 2
  /\ p = 2
  /\ self.personal_best_scores[1] < Inf
  /\ self.personal_best_scores[1] > self.personal_best_scores[0]
  /\ self.global_best_score = self.personal_best_scores[0]

(* particle i has been evaluated at least once: in an earlier iteration,
   or in the current pass of the loop of line 122 *)
C29_Evaluated(i) == Len(History) >= 1 \/ iteration >= 1 \/ i < p

(* C29: once a particle has been evaluated, evaluate_schedule of the stored
   global best assignment returns the stored global best score and energy;
   evaluate_schedule of the personal best assignment of every evaluated
   particle returns its personal best score; and whenever
   update_quantum_states runs, every personal best and the global best
   assign every task, so that the node read for a task is never the
   default 0 of an absent task. *)
C29_BestsMatchAssignments ==
  pc # "none" =>
    LET total(schedule) == DOMAIN schedule = Tasks(self.dag)
        evaluated == {i \in Particles(self.num_particles) : C29_Evaluated(i)}
    IN /\ evaluated # {} =>
            /\ total(self.global_best_schedule)
            /\ evaluate_schedule(self.dag, self.task_list, self.num_nodes,
                                  self.global_best_schedule)
                 = [makespan |-> self.global_best_score,
                    energy |-> self.global_best_energy]
       /\ \A i \in evaluated :
            /\ total(self.personal_best_schedules[i])
            /\ evaluate_schedule(self.dag, self.task_list, self.num_nodes,
                                  self.personal_best_schedules[i]).makespan
                 = self.personal_best_scores[i]
       /\ (pc = "update" /\ self.num_particles >= 1) =>
            /\ evaluated = Particles(self.num_particles)
            /\ \A i \in Particles(self.num_particles) :
                 targets[i].iteration = iteration =>
                   /\ targets[i].personal = self.personal_best_schedules[i]
                   /\ targets[i].global = self.global_best_schedule

(* in a later iteration the global best is below the one first recorded,
   and the second particle's personal best is another assignment with a
   higher makespan *)
C29_Witness ==
  /\ pc = "update"
  /\ self.num_particles = 2
  /\ up = 2
  /\ iteration >= 1
  /\ self.global_best_score < History[1][1]
  /\ self.personal_best_scores[1] > self.global_best_score
  /\ self.personal_best_schedules[1] # self.global_best_schedule
  /\ targets[1].iteration = iteration

(* ================= claims: the order of the particles ================= *)
(* C30 as stated: for the assignments the particles sampled in one
   iteration, the global best after the particle loop (score, energy and
   assignment) is the same for every order of evaluation, also when two
   particles reach the same makespan. *)
C30_OrderIndependent ==
  call = "iteration" => GlobalBest(ret.permuted) = GlobalBest(ret.ranged)

(* the global best C30 amended states for an order: the one before the
   iteration when no sample is below it, else the first sample of the
   order that reaches the least makespan of the samples *)
C30_FirstOfLeast(before, samples, order) ==
  LET out == [i \in DOMAIN samples |->
                evaluate_schedule(before.dag, before.task_list, before.num_nodes,
                                  samples[i])]
      least == SetMin({out[i].makespan : i \in DOMAIN samples})
      first == order[SetMin({k \in 1..Len(order) : out[order[k]].makespan = least})]
  IN IF least < before.global_best_score
     THEN <<least, out[first].energy, samples[first]>>
     ELSE GlobalBest(before)

(* C30 amended: the global best score after the particle loop is the same
   for every order of evaluation; the assignment and the energy are those
   of the sample evaluated first among the samples of least makespan, so
   they depend on the order exactly when different samples tie for a new
   least makespan. *)
C30_OrderDecidesTiesOnly ==
  call = "iteration" =>
    /\ ret.permuted.global_best_score = ret.ranged.global_best_score
    /\ GlobalBest(ret.permuted) = C30_FirstOfLeast(ret.before, ret.samples, ret.order)
    /\ GlobalBest(ret.ranged)
         = C30_FirstOfLeast(ret.before, ret.samples,
                            RangeOrder(ret.before.num_particles))

(* two particles sampled different assignments of the same, new least
   makespan, and the two orders keep different ones *)
C30_Witness ==
  /\ call = "iteration"
  /\ ret.before.num_particles = 2
  /\ ret.samples[0] # ret.samples[1]
  /\ ret.permuted.global_best_score = ret.ranged.global_best_score
  /\ ret.ranged.global_best_score < ret.before.global_best_score
  /\ ret.ranged.global_best_schedule = ret.samples[0]
  /\ ret.permuted.global_best_schedule = ret.samples[1]

====
